---- MODULE Spec2Model ----
(***************************************************************************)
(* Half-edge mesh kernel of fealpy (fealpy/mesh/HalfEdgeMesh.py):          *)
(* the half-edge table, the level arrays and the two adaptive operations   *)
(* refine_poly and coarsen_poly, translated statement by statement.        *)
(*                                                                         *)
(* Arrays are functions over 0..n-1, as in the source.  The half-edge      *)
(* table halfedge[:, 0..5] is kept column-wise as a record with the        *)
(* fields to, cell, next, prev, opp, main (columns 0, 1, 2, 3, 4, 5).      *)
(***************************************************************************)
EXTENDS Integers, Sequences, FiniteSets, TLC

VARIABLES NN, NC, halfedge, hlevel, clevel, cell2hedge, status, last, nops,
          node, fixednode, subdomain

vars == <<NN, NC, halfedge, hlevel, clevel, cell2hedge, status, last, nops,
          node, fixednode, subdomain>>

(***************************************************************************)
(* Bounds of the exploration.                                              *)
(***************************************************************************)
\* number of refine_poly / coarsen_poly calls in one behaviour
MaxOps == 4
\* marked vectors are enumerated for meshes of at most this many cells
MaxCells == 4

(***************************************************************************)
(* Array helpers (numpy semantics).                                        *)
(***************************************************************************)
\* a function with an explicit table of values
Fn(f) == f @@ <<>>

\* 0-based array of a tuple
Arr(s) == Fn([i \in 0..(Len(s) - 1) |-> s[i + 1]])

Size(a) == Cardinality(DOMAIN a)

Idx(n) == 0..(n - 1)

InR(x, n) == x \in 0..(n - 1)

Max2(a, b) == IF a >= b THEN a ELSE b

\* position of x among the elements of S in increasing order
Rank(S, x) == Cardinality(S \cap (0..(x - 1)))

\* a[idx] = val for index arrays idx, val of length K, written in index
\* order for the positions k..K-1 (the first half of the positions, then the
\* second half on its result); a repeated index keeps the last value written.
\* An index outside a is passed over: refine_poly and coarsen_poly check the
\* range of their indices before they write, and reinit writes at the cell
\* ids, which CellIdsExact keeps within 0..NC.
RECURSIVE ScatterFrom(_, _, _, _, _)
ScatterFrom(a, idx, val, k, K) ==
    IF k >= K \/ DOMAIN a = {} THEN a
    ELSE IF K = k + 1
    THEN IF idx[k] \notin DOMAIN a THEN a ELSE [a EXCEPT ![idx[k]] = val[k]]
    ELSE ScatterFrom(ScatterFrom(a, idx, val, k, (k + K) \div 2),
                     idx, val, (k + K) \div 2, K)

Scatter(a, idx, val, K) == ScatterFrom(a, idx, val, 0, K)

\* np.r_[a, b]
Concat(a, b) ==
    LET n == Size(a)
    IN  Fn([i \in Idx(n + Size(b)) |-> IF i < n THEN a[i] ELSE b[i - n]])

\* np.argsort(idx) for an array idx of length K (ties keep index order):
\* position k goes to the place given by the number of entries before it
Argsort(idx, K) ==
    LET place == Fn([k \in Idx(K) |->
                     Cardinality({k2 \in Idx(K) :
                                     idx[k2] < idx[k]
                                     \/ (idx[k2] = idx[k] /\ k2 < k)})])
        ident == Fn([k \in Idx(K) |-> k])
    IN  Scatter(ident, place, ident, K)

\* np.nonzero of a mask given as the set S of its true positions: the
\* array of the elements of S in increasing order
RECURSIVE NonzeroFill(_, _, _)
NonzeroFill(acc, S, T) ==
    IF T = {} \/ DOMAIN acc = {} THEN acc
    ELSE \* lo and hi: the least and the greatest element of T
         LET lo == CHOOSE x \in T : \A y \in T : x <= y
             hi == CHOOSE x \in T : \A y \in T : y <= x
         IN  IF lo = hi THEN [acc EXCEPT ![Rank(S, lo)] = lo]
             ELSE NonzeroFill(
                      NonzeroFill(acc, S, {x \in T : 2 * x <= lo + hi}),
                      S, {x \in T : 2 * x > lo + hi})

Nonzero(S) == NonzeroFill(Fn([k \in Idx(Cardinality(S)) |-> 0]), S, S)

\* a[mask] for a boolean mask given as the set of its true positions
Take(a, S) ==
    LET o == Nonzero(S)
    IN  Fn([k \in DOMAIN o |-> a[o[k]]])

Rows(he) == Size(he.to)

(***************************************************************************)
(* HalfEdgeMesh2dDataStructure.reinit: cell2hedge[halfedge[:, 1]] = range  *)
(***************************************************************************)
reinit(nc, he) ==
    Scatter(Fn([c \in Idx(nc + 1) |-> 0]), he.cell,
            Fn([h \in Idx(Rows(he)) |-> h]), Rows(he))

(***************************************************************************)
(* Imported meshes: half-edge tables as the constructor receives them      *)
(* (first NE rows main half-edges, last NE rows their opposites, sentinel  *)
(* cell NC on the boundary side, all levels zero).                         *)
(***************************************************************************)
\* one square cell: the table HalfEdgeMeshTest.voronoi_test passes to the
\* constructor, with its node flags (all fixed) and its cell tags (the cell
\* in subdomain 1, the sentinel tagged 0)
Mesh_sq1 ==
    [NN |-> 4, NC |-> 1,
     halfedge |-> [
        to   |-> Arr(<<1, 2, 3, 0, 0, 1, 2, 3>>),
        cell |-> Arr(<<0, 0, 0, 0, 1, 1, 1, 1>>),
        next |-> Arr(<<1, 2, 3, 0, 7, 4, 5, 6>>),
        prev |-> Arr(<<3, 0, 1, 2, 5, 6, 7, 4>>),
        opp  |-> Arr(<<4, 5, 6, 7, 0, 1, 2, 3>>),
        main |-> Arr(<<1, 1, 1, 1, 0, 0, 0, 0>>)],
     fixednode |-> Arr(<<TRUE, TRUE, TRUE, TRUE>>),
     subdomain |-> Arr(<<1, 0>>)]

\* a square 0,1,2,3 cut by the path 0-4-5-2 into the two cells
\* (0,1,2,5,4) and (0,4,5,2,3); the interior nodes 4 and 5 are adjacent
\* (every node flagged fixed, the two cells in the subdomains 1 and 2)
Mesh_path2 ==
    [NN |-> 6, NC |-> 2,
     halfedge |-> [
        to   |-> Arr(<<1, 0, 0, 2, 3, 5, 4, 0, 3, 4, 1, 2, 2, 5>>),
        cell |-> Arr(<<0, 1, 0, 0, 1, 0, 0, 2, 2, 1, 2, 2, 1, 1>>),
        next |-> Arr(<<3, 9, 0, 5, 1, 6, 2, 8, 11, 13, 7, 10, 4, 12>>),
        prev |-> Arr(<<2, 4, 6, 0, 12, 3, 5, 10, 7, 1, 11, 8, 13, 9>>),
        opp  |-> Arr(<<7, 8, 9, 10, 11, 12, 13, 0, 1, 2, 3, 4, 5, 6>>),
        main |-> Arr(<<1, 1, 1, 1, 1, 1, 1, 0, 0, 0, 0, 0, 0, 0>>)],
     fixednode |-> Arr(<<TRUE, TRUE, TRUE, TRUE, TRUE, TRUE>>),
     subdomain |-> Arr(<<1, 2, 0>>)]

ImportedMeshes == {Mesh_sq1, Mesh_path2}

\* HalfEdgeMesh.init_level_info
init_level_info(n) == Fn([i \in Idx(n) |-> 0])


(***************************************************************************)
(* refine_poly, lines 355-492.  A mesh value m is the record               *)
(* [NN, NC, halfedge, hlevel, clevel]; isMarkedCell is a boolean array.    *)
(***************************************************************************)
\* lines 369-374: the half-edges to split (mask isMarkedHEdge as a set)
isMarkedHEdge(m, isMarkedCell) ==
    LET he == m.halfedge
        flag01 == {h \in Idx(Rows(he)) :
                      /\ isMarkedCell[he.cell[h]]
                      /\ m.hlevel[h] - m.clevel[he.cell[h]] <= 0
                      /\ m.hlevel[he.prev[h]] - m.clevel[he.cell[h]] <= 0}
    IN  flag01 \cup {h \in Idx(Rows(he)) : he.opp[h] \in flag01}

\* lines 360-373 and 393: the indexing that fails before anything is written
refine_raises_early(m, isMarkedCell) ==
    LET he == m.halfedge
        N  == Rows(he)
    IN  \/ Size(m.hlevel) # N
        \/ \E h \in Idx(N) :
              \/ ~InR(he.prev[h], N)
              \/ ~InR(he.to[h], m.NN)
              \/ ~InR(he.cell[h], m.NC + 1)
              \/ ~InR(he.cell[h], Size(m.clevel))
              \/ ~InR(he.cell[h], Size(isMarkedCell))
              \/ ~InR(he.opp[h], N)
        \/ LET MH == isMarkedHEdge(m, isMarkedCell)
           IN  Cardinality(MH) # 2 * Cardinality({h \in MH : he.main[h] = 1})

\* lines 391-395: column 0 of halfedge1, the midpoint node of every split
\* half-edge (in index order): main rows numbered in order, the others
\* matched to them through the argsort of the opposites
midpoint_nodes(m, MH) ==
    LET he   == m.halfedge
        F0   == {g \in MH : he.main[g] = 1}
        idx  == Take(he.opp, F0)
        idx0 == Argsort(idx, Cardinality(F0))
        mh   == Nonzero(MH)
    IN  Fn([i \in Idx(Cardinality(MH)) |->
            LET h == mh[i]
            IN  IF h \in F0 THEN m.NN + Rank(F0, h)
                ELSE m.NN + idx0[Rank(MH \ F0, h)]])

\* split_levels that reads the level of the split half-edge alone and
\* leaves out the level of its predecessor
split_levels_own_level(m, MH) ==
    LET he   == m.halfedge
        F0   == {g \in MH : he.main[g] = 1}
        idx  == Take(he.opp, F0)
        idx0 == Argsort(idx, Cardinality(F0))
        mh   == Nonzero(MH)
    IN  Fn([i \in Idx(Cardinality(MH)) |->
            LET h == mh[i]
                g == IF h \in F0 THEN h ELSE idx[idx0[Rank(MH \ F0, h)]]
            IN  m.hlevel[g] + 1])

\* lines 397-399: hlevel1, the level of the new half-edge of every split
\* half-edge (in index order)
split_levels(m, MH) ==
    LET he   == m.halfedge
        F0   == {g \in MH : he.main[g] = 1}
        idx  == Take(he.opp, F0)
        idx0 == Argsort(idx, Cardinality(F0))
        mh   == Nonzero(MH)
    IN  Fn([i \in Idx(Cardinality(MH)) |->
            LET h == mh[i]
                g == IF h \in F0 THEN h ELSE idx[idx0[Rank(MH \ F0, h)]]
            IN  Max2(m.hlevel[g], m.hlevel[he.prev[g]]) + 1])

\* lines 406-408: the writes made in place to the stored table
split_inplace(m, MH) ==
    LET he    == m.halfedge
        N     == Rows(he)
        prevA == Fn([h \in Idx(N) |->
                     IF h \in MH THEN N + Rank(MH, h) ELSE he.prev[h]])
        oppA  == Fn([h \in Idx(N) |->
                     IF h \in MH
                     THEN (IF InR(he.opp[h], N) THEN prevA[he.opp[h]] ELSE 0)
                     ELSE he.opp[h]])
    IN  [he EXCEPT !.prev = prevA, !.opp = oppA]

\* split_edges that gives the new half-edge the main bit its half-edge has
\* not
split_edges_flipped_main(m, MH) ==
    LET he   == m.halfedge
        N    == Rows(he)
        K    == Cardinality(MH)
        N2   == N + K
        heA  == split_inplace(m, MH)
        src  == Nonzero(MH)
        to1  == midpoint_nodes(m, MH)
        hl1  == split_levels(m, MH)
        prevE == Concat(heA.prev, Fn([i \in Idx(K) |-> he.prev[src[i]]]))
        nextE == Concat(he.next, Fn([i \in Idx(K) |-> 0]))
        ext  == [to   |-> Concat(he.to, to1),
                 cell |-> Concat(he.cell, Fn([i \in Idx(K) |-> he.cell[src[i]]])),
                 next |-> Scatter(nextE, prevE, Fn([i \in Idx(N2) |-> i]), N2),
                 prev |-> prevE,
                 opp  |-> Concat(heA.opp, Fn([i \in Idx(K) |-> he.opp[src[i]]])),
                 main |-> Concat(he.main, Fn([i \in Idx(K) |-> 1 - he.main[src[i]]]))]
    IN  [halfedge |-> ext, hlevel |-> Concat(m.hlevel, hl1)]

\* lines 391-412: the table and the levels after every marked edge is split
split_edges(m, MH) ==
    LET he   == m.halfedge
        N    == Rows(he)
        K    == Cardinality(MH)
        N2   == N + K
        heA  == split_inplace(m, MH)
        src  == Nonzero(MH)
        to1  == midpoint_nodes(m, MH)
        hl1  == split_levels(m, MH)
        prevE == Concat(heA.prev, Fn([i \in Idx(K) |-> he.prev[src[i]]]))
        nextE == Concat(he.next, Fn([i \in Idx(K) |-> 0]))
        ext  == [to   |-> Concat(he.to, to1),
                 cell |-> Concat(he.cell, Fn([i \in Idx(K) |-> he.cell[src[i]]])),
                 next |-> Scatter(nextE, prevE, Fn([i \in Idx(N2) |-> i]), N2),
                 prev |-> prevE,
                 opp  |-> Concat(heA.opp, Fn([i \in Idx(K) |-> he.opp[src[i]]])),
                 main |-> Concat(he.main, Fn([i \in Idx(K) |-> he.main[src[i]]]))]
    IN  [halfedge |-> ext, hlevel |-> Concat(m.hlevel, hl1)]

\* lines 444-451: walk back from every fresh half-edge over the half-edges
\* that are not fresh, giving each the new cell id; fuel bounds the loop
RECURSIVE walk_back(_, _, _, _, _, _)
walk_back(prev, flag, idx0, idx1, cell, fuel) ==
    LET K    == Size(idx0)
        pre  == Fn([k \in Idx(K) |-> prev[idx1[k]]])
        flag0 == {k \in Idx(K) : pre[k] \notin flag}
    IN  IF flag0 = {} THEN [hung |-> FALSE, idx1 |-> idx1, cell |-> cell]
        ELSE IF fuel = 0 THEN [hung |-> TRUE, idx1 |-> idx1, cell |-> cell]
        ELSE LET idx1n == Fn([k \in Idx(K) |->
                              IF k \in flag0 THEN pre[k] ELSE idx1[k]])
                 celln == Scatter(cell, idx1n,
                                  Fn([k \in Idx(K) |-> cell[idx0[k]]]), K)
             IN  walk_back(prev, flag, idx0, idx1n, celln, fuel - 1)

\* fresh_hedges with the levels compared after line 441 has raised the
\* level of the marked cells
fresh_hedges_after_increment(he2, hl2, clevel0, isMarkedCell) ==
    {h \in Idx(Rows(he2)) :
        /\ isMarkedCell[he2.cell[h]]
        /\ hl2[h] - (clevel0[he2.cell[h]] + 1) = 1}

\* line 421 and 432: the fresh half-edges of the marked cells (idx0 as a set)
fresh_hedges(he2, hl2, clevel0, isMarkedCell) ==
    {h \in Idx(Rows(he2)) :
        /\ hl2[h] - clevel0[he2.cell[h]] = 1
        /\ isMarkedCell[he2.cell[h]]}

\* compact_cells without line 486, the renumbering of the cell column
compact_cells_keep_ids(cellcol, clevelAll) ==
    LET used == {cellcol[h] : h \in DOMAIN cellcol}
    IN  [NC     |-> Cardinality(used),
         cell   |-> cellcol,
         clevel |-> Take(clevelAll, used)]

\* lines 480-487: the compacted cell numbering and cell levels
compact_cells(cellcol, clevelAll) ==
    LET used   == {cellcol[h] : h \in DOMAIN cellcol}
        idxmap == Fn([c \in DOMAIN clevelAll |->
                      IF c \in used THEN Rank(used, c) ELSE 0])
    IN  [NC     |-> Cardinality(used),
         cell   |-> Fn([h \in DOMAIN cellcol |-> idxmap[cellcol[h]]]),
         clevel |-> Take(clevelAll, used)]

\* spoke_levels with the cell levels read before line 441 has raised them
spoke_levels_unraised(clevelInc, cellidx, NHE) ==
    Fn([k \in Idx(NHE) |-> clevelInc[cellidx[k]] - 1])

\* lines 468 and 476: the level of the two half-edges of every new spoke,
\* the raised level of the cell its fresh half-edge lay in
spoke_levels(clevelInc, cellidx, NHE) ==
    Fn([k \in Idx(NHE) |-> clevelInc[cellidx[k]]])

\* lines 420-492: the star subdivision of the marked cells
split_cells(m, e, NE1, isMarkedCell) ==
    LET he2  == e.halfedge
        hl2  == e.hlevel
        N2   == Rows(he2)
        NC0  == m.NC
        flag == {h \in Idx(N2) : hl2[h] - m.clevel[he2.cell[h]] = 1}
        IDX0 == fresh_hedges(he2, hl2, m.clevel, isMarkedCell)
        NHE  == Cardinality(IDX0)
        MC   == {c \in DOMAIN isMarkedCell : isMarkedCell[c]}
        idx0 == Nonzero(IDX0)
        nex0 == Fn([k \in Idx(NHE) |-> he2.next[idx0[k]]])
        cellA == Fn([h \in Idx(N2) |->
                     IF he2.cell[h] = NC0 THEN NC0 + NHE ELSE he2.cell[h]])
        cellidx == Fn([k \in Idx(NHE) |-> cellA[idx0[k]]])
        cellB == Fn([h \in Idx(N2) |->
                     IF h \in IDX0 THEN NC0 + Rank(IDX0, h) ELSE cellA[h]])
        clevelInc == Fn([c \in DOMAIN m.clevel |->
                         IF isMarkedCell[c] THEN m.clevel[c] + 1 ELSE m.clevel[c]])
        w    == walk_back(he2.prev, flag, idx0, idx0, cellB, N2)
        idx1 == w.idx1
        cellW == w.cell
        pre1 == Fn([k \in Idx(NHE) |-> he2.prev[idx1[k]]])
        nextC == Scatter(he2.next, idx0, Fn([k \in Idx(NHE) |-> N2 + k]), NHE)
        prevC == Scatter(he2.prev, idx1, Fn([k \in Idx(NHE) |-> N2 + NHE + k]), NHE)
        cell2newNode == Fn([c \in Idx(NC0 + 1) |->
                            m.NN + NE1 + (IF c \in MC THEN Rank(MC, c) ELSE 0)])
        lo   == [to   |-> Fn([k \in Idx(NHE) |-> cell2newNode[cellidx[k]]]),
                 cell |-> Fn([k \in Idx(NHE) |-> cellW[idx0[k]]]),
                 next |-> Fn([k \in Idx(NHE) |-> prevC[idx1[k]]]),
                 prev |-> idx0,
                 opp  |-> Fn([k \in Idx(NHE) |-> prevC[nex0[k]]]),
                 main |-> Fn([k \in Idx(NHE) |-> 1])]
        hi   == [to   |-> Fn([k \in Idx(NHE) |-> he2.to[pre1[k]]]),
                 cell |-> Fn([k \in Idx(NHE) |-> cellW[idx1[k]]]),
                 next |-> idx1,
                 prev |-> Fn([k \in Idx(NHE) |-> nextC[idx0[k]]]),
                 opp  |-> Fn([k \in Idx(NHE) |-> nextC[pre1[k]]]),
                 main |-> Fn([k \in Idx(NHE) |-> 0])]
        clevel1 == Fn([k \in Idx(NHE) |-> clevelInc[cellidx[k]]])
        hlev1 == spoke_levels(clevelInc, cellidx, NHE)
        cellAll == Concat(cellW, Concat(lo.cell, hi.cell))
        clevelAll == Concat(Fn([c \in Idx(NC0) |-> clevelInc[c]]),
                            Concat(clevel1, Arr(<<0>>)))
        cc   == compact_cells(cellAll, clevelAll)
        partial == [status |-> "raised", NN |-> m.NN, NC |-> m.NC,
                    halfedge |-> split_inplace(m, isMarkedHEdge(m, isMarkedCell)),
                    hlevel |-> m.hlevel, clevel |-> m.clevel,
                    NE1 |-> NE1, NHE |-> NHE]
    IN  IF Size(isMarkedCell) # NC0 + 1 \/ Size(m.clevel) # Size(isMarkedCell)
        THEN partial
        ELSE IF w.hung
        THEN [partial EXCEPT !.status = "hung", !.clevel = clevelInc]
        ELSE IF \E k \in Idx(NHE) : ~InR(nex0[k], N2)
        THEN [partial EXCEPT !.clevel = clevelInc]
        ELSE [status |-> "ok",
              NN |-> m.NN + NE1 + Cardinality(MC),
              NC |-> cc.NC - 1,
              halfedge |-> [to   |-> Concat(he2.to, Concat(lo.to, hi.to)),
                            cell |-> cc.cell,
                            next |-> Concat(nextC, Concat(lo.next, hi.next)),
                            prev |-> Concat(prevC, Concat(lo.prev, hi.prev)),
                            opp  |-> Concat(he2.opp, Concat(lo.opp, hi.opp)),
                            main |-> Concat(he2.main, Concat(lo.main, hi.main))],
              hlevel |-> Concat(hl2, Concat(hlev1, hlev1)),
              clevel |-> cc.clevel,
              NE1 |-> NE1, NHE |-> NHE]

\* refine_poly(isMarkedCell, dflag): the mesh after the call and how it ended
refine_poly(m, isMarkedCell, dflag) ==
    IF refine_raises_early(m, isMarkedCell)
    THEN [status |-> "raised", NN |-> m.NN, NC |-> m.NC, halfedge |-> m.halfedge,
          hlevel |-> m.hlevel, clevel |-> m.clevel, NE1 |-> 0, NHE |-> 0]
    ELSE LET MH  == isMarkedHEdge(m, isMarkedCell)
             NE1 == Cardinality({h \in MH : m.halfedge.main[h] = 1})
             e   == split_edges(m, MH)
         IN  IF dflag
             THEN [status |-> "ok", NN |-> m.NN + NE1, NC |-> m.NC,
                   halfedge |-> e.halfedge, hlevel |-> e.hlevel,
                   clevel |-> m.clevel, NE1 |-> NE1, NHE |-> 0]
             ELSE split_cells(m, e, NE1, isMarkedCell)


(***************************************************************************)
(* coarsen_poly, lines 494-586.                                            *)
(***************************************************************************)
\* lines 504-510: the removable nodes (mask isRNode as a set)
isRNode(m, isMarkedCell) ==
    LET he == m.halfedge
    IN  {n \in Idx(m.NN) :
            \A h \in Idx(Rows(he)) :
                he.to[h] = n =>
                    /\ m.hlevel[h] = m.clevel[he.cell[h]]
                    /\ m.hlevel[h] = m.hlevel[he.opp[h]]
                    /\ isMarkedCell[he.cell[h]]}

\* lines 505-526: the indexing that fails before anything is written
coarsen_raises_early(m, isMarkedCell) ==
    LET he == m.halfedge
        N  == Rows(he)
    IN  \/ Size(m.hlevel) # N
        \/ \E h \in Idx(N) :
              \/ ~InR(he.cell[h], Size(m.clevel))
              \/ ~InR(he.to[h], m.NN)
              \/ ~InR(he.opp[h], N)
              \/ ~InR(he.cell[h], Size(isMarkedCell))
        \/ /\ isRNode(m, isMarkedCell) # {}
           /\ \E h \in Idx(N) : ~InR(he.cell[h], m.NC + 1)

\* lines 519-526: the cell column after the stars of the removable nodes
\* are given the new ids NC..NC+nn-1 and the sentinel the id NC+nn
fuse_cells(m, R) ==
    LET he  == m.halfedge
        N   == Rows(he)
        nn  == Cardinality(R)
        RH  == {h \in Idx(N) : he.to[h] \in R}
        K   == Cardinality(RH)
        cidxmap0 == Fn([c \in Idx(m.NC + 1) |-> IF c = m.NC THEN m.NC + nn ELSE c])
        rh  == Nonzero(RH)
        cidxmap == Scatter(cidxmap0,
                           Fn([k \in Idx(K) |-> he.cell[rh[k]]]),
                           Fn([k \in Idx(K) |-> m.NC + Rank(R, he.to[rh[k]])]),
                           K)
    IN  Fn([h \in Idx(N) |-> cidxmap[he.cell[h]]])

\* lines 527-531: the cell levels extended by the levels of the fused cells
fused_levels(m, R) ==
    LET he == m.halfedge
        N  == Rows(he)
        nlevel == Scatter(Fn([n \in Idx(m.NN) |-> 0]), he.to, m.hlevel, N)
        r      == Nonzero(R)
        level  == Fn([k \in Idx(Cardinality(R)) |-> Max2(nlevel[r[k]] - 1, 0)])
    IN  Concat(Fn([c \in Idx(Size(m.clevel) - 1) |-> m.clevel[c]]),
               Concat(level, Arr(<<0>>)))

\* lines 533-537: next skips the spoke that points to a removable node
splice_next(he, R) ==
    Fn([h \in Idx(Rows(he)) |->
        IF he.to[he.next[h]] \in R
        THEN he.next[he.opp[he.next[h]]]
        ELSE he.next[h]])

\* line 539: prev of the new next is the half-edge itself
splice_prev(he, R, nextB) ==
    LET F == {h \in Idx(Rows(he)) : he.to[he.next[h]] \in R}
        K == Cardinality(F)
        f == Nonzero(F)
    IN  Scatter(he.prev, Fn([k \in Idx(K) |-> nextB[f[k]]]), f, K)

\* lines 543-547: the half-edges removed by the edge merge
merge_flag(heB, hlevel0, MH0) ==
    {h \in Idx(Rows(heB)) :
        /\ h \notin MH0
        /\ heB.opp[heB.next[heB.opp[heB.next[h]]]] = h
        /\ hlevel0[h] > hlevel0[heB.next[h]]
        /\ hlevel0[h] > hlevel0[heB.prev[h]]}

\* lines 549-555: the two half-edges around a merged one are linked
merge_edges(heB, F2) ==
    LET K   == Cardinality(F2)
        f   == Nonzero(F2)
        nex == Fn([k \in Idx(K) |-> heB.next[f[k]]])
        pre == Fn([k \in Idx(K) |-> heB.prev[f[k]]])
        dua == Fn([k \in Idx(K) |-> heB.opp[f[k]]])
    IN  [heB EXCEPT !.next = Scatter(heB.next, pre, nex, K),
                    !.prev = Scatter(heB.prev, nex, pre, K),
                    !.opp  = Scatter(heB.opp, nex, dua, K)]

\* lines 565-578: rows kept, renumbered; cells renumbered
renumber(heD, keep, ncells) ==
    LET N    == Rows(heD)
        ne   == Cardinality(keep)
        eidxmap == Fn([h \in Idx(N) |-> IF h \in keep THEN Rank(keep, h) ELSE h])
        used == {heD.cell[h] : h \in keep}
        cidxmap == Fn([c \in Idx(ncells) |-> IF c \in used THEN Rank(used, c) ELSE 0])
        kp   == Nonzero(keep)
        col(a) == Fn([i \in Idx(ne) |-> a[kp[i]]])
        map(a) == Fn([i \in Idx(ne) |-> eidxmap[a[kp[i]]]])
    IN  [NC   |-> Cardinality(used),
         halfedge |-> [to   |-> col(heD.to),
                       cell |-> Fn([i \in Idx(ne) |-> cidxmap[heD.cell[kp[i]]]]),
                       next |-> map(heD.next),
                       prev |-> map(heD.prev),
                       opp  |-> map(heD.opp),
                       main |-> col(heD.main)]]

\* coarsen_poly(isMarkedCell): the mesh after the call and how it ended;
\* a call that raises leaves the writes it made in place to the stored table
coarsen_poly(m, isMarkedCell) ==
    LET he  == m.halfedge
        N   == Rows(he)
        same == [status |-> "ok", NN |-> m.NN, NC |-> m.NC, halfedge |-> he,
                 hlevel |-> m.hlevel, clevel |-> m.clevel, nn |-> 0, merged |-> 0,
                 keep |-> Idx(N), keepN |-> Idx(m.NN), reinit |-> FALSE]
    IN  IF coarsen_raises_early(m, isMarkedCell)
        THEN [same EXCEPT !.status = "raised"]
        ELSE
        LET R   == isRNode(m, isMarkedCell)
            nn  == Cardinality(R)
        IN  IF nn = 0 THEN same
            ELSE
            LET MH0 == {h \in Idx(N) : he.to[h] \in R \/ he.to[he.opp[h]] \in R}
                MC  == {he.cell[h] : h \in MH0}
                heA == [he EXCEPT !.cell = fuse_cells(m, R)]
                clevelN == fused_levels(m, R)
                raisedA == [same EXCEPT !.status = "raised", !.halfedge = heA, !.nn = nn]
            IN  IF \E h \in Idx(N) : ~InR(he.next[h], N)
                THEN raisedA
                ELSE
                LET nextB == splice_next(heA, R)
                    heB0  == [heA EXCEPT !.next = nextB]
                IN  IF \E h \in Idx(N) : ~InR(nextB[h], N)
                    THEN [raisedA EXCEPT !.halfedge = heB0]
                    ELSE
                    LET heB == [heB0 EXCEPT !.prev = splice_prev(heA, R, nextB)]
                    IN  IF \E h \in Idx(N) : ~InR(heB.prev[h], N)
                        THEN [raisedA EXCEPT !.halfedge = heB]
                        ELSE
                        LET F2  == merge_flag(heB, m.hlevel, MH0)
                            heC == merge_edges(heB, F2)
                            MH  == MH0 \cup F2
                            R2  == R \cup {heB.to[h] : h \in F2}
                            NNn == m.NN - (nn + (Cardinality(F2) \div 2))
                            keepN == Idx(m.NN) \ R2
                            keep  == Idx(N) \ MH
                        IN  IF Cardinality(keepN) # Max2(NNn, 0)
                            THEN [raisedA EXCEPT !.halfedge = heC]
                            ELSE
                            LET heD == [heC EXCEPT !.to =
                                          Fn([h \in Idx(N) |->
                                              IF heC.to[h] \in keepN
                                              THEN Rank(keepN, heC.to[h]) ELSE 0])]
                                rn  == renumber(heD, keep, m.NC + nn + 1)
                                hlevelN == Take(m.hlevel, keep)
                            IN  IF Size(clevelN) # m.NC + nn + 1
                                THEN [raisedA EXCEPT !.halfedge = heD, !.hlevel = hlevelN]
                                ELSE [status |-> "ok", NN |-> NNn, NC |-> rn.NC - 1,
                                      halfedge |-> rn.halfedge,
                                      hlevel |-> hlevelN,
                                      clevel |-> Take(clevelN, Idx(m.NC + nn + 1) \ MC),
                                      nn |-> nn, merged |-> Cardinality(F2),
                                      keep |-> keep, keepN |-> keepN,
                                      reinit |-> TRUE]

(***************************************************************************)
(* The state machine: a mesh is imported, then refine_poly (full or        *)
(* edge-only) and coarsen_poly are called with any marked vector of length *)
(* NC+1 whose slot NC is false.                                            *)
(***************************************************************************)
mesh == [NN |-> NN, NC |-> NC, halfedge |-> halfedge,
         hlevel |-> hlevel, clevel |-> clevel]

\* the marked vector that marks exactly the cells of S
MarkedVector(nc, S) == Fn([c \in Idx(nc + 1) |-> c \in S])

\* the node table self.node, each node named by where it comes from: an
\* imported node by its index in the imported table, the midpoint of a split
\* edge by MidPoint, the barycenter of a split cell by BaryCenter
MidPoint == -1

BaryCenter == -2

\* lines 416 and 491: np.r_[node, ec] and np.r_[node, ec, bc[isMarkedCell]]:
\* NE1 midpoints, then the barycenters, up to the new node count
refined_nodes(nd, NE1, NNnew) ==
    Concat(nd, Fn([k \in Idx(NNnew - Size(nd)) |->
                   IF k < NE1 THEN MidPoint ELSE BaryCenter]))

Init ==
    \E im \in ImportedMeshes :
        /\ NN = im.NN
        /\ NC = im.NC
        /\ halfedge = im.halfedge
        /\ hlevel = init_level_info(Rows(im.halfedge))
        /\ clevel = init_level_info(im.NC + 1)
        /\ cell2hedge = reinit(im.NC, im.halfedge)
        /\ status = "ok"
        /\ last = [op |-> "import", marked |-> {}]
        /\ nops = 0
        /\ node = Fn([n \in Idx(im.NN) |-> n])
        /\ fixednode = im.fixednode
        /\ subdomain = im.subdomain

CanCall == status = "ok" /\ nops < MaxOps /\ NC <= MaxCells

Install(r) ==
    /\ NN' = r.NN
    /\ NC' = r.NC
    /\ halfedge' = r.halfedge
    /\ hlevel' = r.hlevel
    /\ clevel' = r.clevel
    /\ status' = r.status
    /\ nops' = nops + 1

RefinePoly ==
    /\ CanCall
    /\ \E S \in SUBSET Idx(NC) :
        \E r \in {refine_poly(mesh, MarkedVector(NC, S), FALSE)} :
            /\ Install(r)
            /\ cell2hedge' = IF r.status = "ok" THEN reinit(r.NC, r.halfedge)
                             ELSE cell2hedge
            /\ last' = [op |-> "refine", marked |-> S]
            /\ node' = IF r.status = "ok" THEN refined_nodes(node, r.NE1, r.NN)
                       ELSE node
            /\ UNCHANGED <<fixednode, subdomain>>

RefineEdges ==
    /\ CanCall
    /\ \E S \in SUBSET Idx(NC) :
        \E r \in {refine_poly(mesh, MarkedVector(NC, S), TRUE)} :
            /\ Install(r)
            /\ cell2hedge' = IF r.status = "ok" THEN reinit(r.NC, r.halfedge)
                             ELSE cell2hedge
            /\ last' = [op |-> "edges", marked |-> S]
            /\ node' = IF r.status = "ok" THEN refined_nodes(node, r.NE1, r.NN)
                       ELSE node
            /\ UNCHANGED <<fixednode, subdomain>>

CoarsenPoly ==
    /\ CanCall
    /\ \E S \in SUBSET Idx(NC) :
        \E r \in {coarsen_poly(mesh, MarkedVector(NC, S))} :
            /\ Install(r)
            /\ cell2hedge' = IF r.status = "ok" /\ r.reinit
                             THEN reinit(r.NC, r.halfedge) ELSE cell2hedge
            /\ last' = [op |-> "coarsen", marked |-> S]
            /\ node' = IF r.status = "ok" /\ r.reinit THEN Take(node, r.keepN)
                       ELSE node
            /\ UNCHANGED <<fixednode, subdomain>>

Next == RefinePoly \/ RefineEdges \/ CoarsenPoly

Spec == Init /\ [][Next]_vars

(***************************************************************************)
(* Structural properties of the half-edge table, read on the current mesh. *)
(* They are stated for the mesh a completed call leaves (status "ok"); an  *)
(* index outside the table counts as a violation.                          *)
(***************************************************************************)
\* HalfEdgeMesh2dDataStructure.number_of_vertices_of_cells: NV[c]
number_of_vertices_of_cells(he, c) ==
    Cardinality({h \in Idx(Rows(he)) : he.cell[h] = c})

\* walking next from g reaches h in at most n steps
RECURSIVE returns_within(_, _, _, _)
returns_within(nxt, h, g, n) ==
    IF n = 0 \/ ~InR(nxt[g], Size(nxt)) THEN FALSE
    ELSE nxt[g] = h \/ returns_within(nxt, h, nxt[g], n - 1)

\* C1: in every mesh reachable from an imported mesh by refine_poly (full or
\* edge-only) and coarsen_poly calls, every half-edge h has
\* opp[opp[h]] = h and opp[h] # h.
C1_OppInvolution ==
    status = "ok" =>
        \A h \in Idx(Rows(halfedge)) :
            /\ InR(halfedge.opp[h], Rows(halfedge))
            /\ halfedge.opp[halfedge.opp[h]] = h
            /\ halfedge.opp[h] # h

\* C2: in every reachable mesh next and prev are mutually inverse
\* permutations of the half-edge indices: next[prev[h]] = h and
\* prev[next[h]] = h for every half-edge h.
C2_NextPrevInverse ==
    status = "ok" =>
        \A h \in Idx(Rows(halfedge)) :
            /\ InR(halfedge.next[h], Rows(halfedge))
            /\ InR(halfedge.prev[h], Rows(halfedge))
            /\ halfedge.next[halfedge.prev[h]] = h
            /\ halfedge.prev[halfedge.next[h]] = h

\* C3: in every reachable mesh, walking next from any half-edge h returns to
\* h within vertices_per_cell[cell[h]] steps, and next stays in the cell:
\* cell[h] = cell[next[h]].
C3_CellCycle ==
    status = "ok" =>
        \A h \in Idx(Rows(halfedge)) :
            /\ InR(halfedge.next[h], Rows(halfedge))
            /\ halfedge.cell[halfedge.next[h]] = halfedge.cell[h]
            /\ returns_within(halfedge.next, h, h,
                              number_of_vertices_of_cells(halfedge, halfedge.cell[h]))

\* C4: in every reachable mesh, for every half-edge h the head of opp[h] is
\* the head of prev[h]: to[opp[h]] = to[prev[h]].
C4_TailIsHeadOfPrev ==
    status = "ok" =>
        \A h \in Idx(Rows(halfedge)) :
            /\ InR(halfedge.opp[h], Rows(halfedge))
            /\ InR(halfedge.prev[h], Rows(halfedge))
            /\ halfedge.to[halfedge.opp[h]] = halfedge.to[halfedge.prev[h]]

\* C5: in every reachable mesh exactly one half-edge of each twin pair is the
\* main one: main[h] + main[opp[h]] = 1 for every half-edge h.
C5_OneMainPerPair ==
    status = "ok" =>
        \A h \in Idx(Rows(halfedge)) :
            /\ InR(halfedge.opp[h], Rows(halfedge))
            /\ halfedge.main[h] + halfedge.main[halfedge.opp[h]] = 1

(***************************************************************************)
(* Properties of one call, read on the step that makes it: the unprimed    *)
(* variables are the mesh before the call, last' names the call and its    *)
(* marked cells, the primed variables are the mesh it leaves.              *)
(***************************************************************************)
FullRefineReturns == last'.op = "refine" /\ status' = "ok"

CallReturns == last'.op \in {"refine", "edges", "coarsen"} /\ status' = "ok"

RECURSIVE SumOver(_, _)
SumOver(S, f) ==
    IF S = {} THEN 0
    ELSE LET x == CHOOSE y \in S : TRUE
         IN  f[x] + SumOver(S \ {x}, f)

\* the cell column uses exactly the ids 0..nc and cell2hedge names a
\* half-edge of every cell
CellIdsExact(nc, he, c2h) ==
    /\ \A h \in Idx(Rows(he)) : InR(he.cell[h], nc + 1)
    /\ \A c \in Idx(nc + 1) : \E h \in Idx(Rows(he)) : he.cell[h] = c
    /\ Size(c2h) = nc + 1
    /\ \A c \in Idx(nc + 1) : InR(c2h[c], Rows(he)) /\ he.cell[c2h[c]] = c

\* the rows a call keeps (coarsen_poly drops rows and renumbers the rest;
\* refine_poly keeps every row at its index)
KeptRows ==
    IF last'.op = "coarsen"
    THEN coarsen_poly(mesh, MarkedVector(NC, last'.marked)).keep
    ELSE Idx(Rows(halfedge))

\* C6: after every refine_poly and coarsen_poly call that returns, the cell
\* column uses exactly the ids 0..NC (every id is the cell of some
\* half-edge), the half-edges of the sentinel before the call that the call
\* keeps are in the sentinel after it, and cell2hedge[c] is a half-edge of
\* cell c for every c in 0..NC.
C6_CellIdsContiguous ==
    [][CallReturns =>
        /\ CellIdsExact(NC', halfedge', cell2hedge')
        /\ \A kept \in {KeptRows} :
              \A h \in kept :
                  halfedge.cell[h] = NC =>
                      halfedge'.cell[Rank(kept, h)] = NC']_vars

\* a coarsen_poly call has removed cells and left a mesh of several cells
C6_Witness ==
    /\ status = "ok"
    /\ last.op = "coarsen"
    /\ Cardinality(last.marked) > NC
    /\ NC >= 2

\* the mesh a call returned, as a mesh value
AsMesh(r) == [NN |-> r.NN, NC |-> r.NC, halfedge |-> r.halfedge,
              hlevel |-> r.hlevel, clevel |-> r.clevel]

\* the table after the edges of the marked cells S are split (lines 369-412)
AfterEdgeSplit(S) ==
    split_edges(mesh, isMarkedHEdge(mesh, MarkedVector(NC, S)))

\* the cells of the mesh post that hold the rows cell c has after the edge
\* split e: the children of c
ChildrenOf(e, c, postcell) ==
    {postcell[h] : h \in {g \in Idx(Rows(e.halfedge)) : e.halfedge.cell[g] = c}}

\* the rim half-edges of cell c that the edge split selects: level of the
\* half-edge and of its predecessor at most the level of the cell
SplittableRim(c) ==
    {h \in Idx(Rows(halfedge)) :
        /\ halfedge.cell[h] = c
        /\ hlevel[h] <= clevel[c]
        /\ hlevel[halfedge.prev[h]] <= clevel[c]}

\* the fresh rim half-edges of cell c after the edge split e: level one above
\* the level of the cell
FreshRim(e, c) ==
    {h \in Idx(Rows(e.halfedge)) :
        e.halfedge.cell[h] = c /\ e.hlevel[h] = clevel[c] + 1}

\* C7: round trip.  For every reachable mesh M and every marked vector, a
\* full refine_poly followed by coarsen_poly with exactly the children of the
\* refined cells marked gives a mesh with the node, edge and cell counts of M
\* (the part of the law that is read off the counts; marked vectors are
\* enumerated for meshes of at most MaxCells cells).
C7_RoundTripCounts ==
    (status = "ok" /\ NC <= MaxCells) =>
        \A S \in SUBSET Idx(NC) :
            LET r == refine_poly(mesh, MarkedVector(NC, S), FALSE)
            IN  r.status = "ok" =>
                LET e  == AfterEdgeSplit(S)
                    ch == UNION {ChildrenOf(e, c, r.halfedge.cell) : c \in S}
                    r2 == coarsen_poly(AsMesh(r), MarkedVector(r.NC, ch))
                IN  /\ r2.status = "ok"
                    /\ r2.NN = NN
                    /\ r2.NC = NC
                    /\ Rows(r2.halfedge) = Rows(halfedge)

\* C8: refine_poly (full or edge-only) and coarsen_poly called with no cell
\* marked leave the mesh unchanged: node count, half-edge table (all six
\* columns), cell count, cell levels and half-edge levels.
C8_EmptyMarkNoOp ==
    status = "ok" =>
        \A r \in {refine_poly(mesh, MarkedVector(NC, {}), FALSE),
                  refine_poly(mesh, MarkedVector(NC, {}), TRUE),
                  coarsen_poly(mesh, MarkedVector(NC, {}))} :
            AsMesh(r) = mesh

\* C9: after a full refine_poly every marked cell with k splittable rim
\* half-edges is replaced by exactly k children, and the cell count grows by
\* the sum over the marked cells of (k - 1).
C9_ChildrenPerSplittable ==
    [][FullRefineReturns =>
        \A e \in {AfterEdgeSplit(last'.marked)} :
        \A k \in {Fn([c \in last'.marked |-> Cardinality(SplittableRim(c))])} :
            /\ \A c \in last'.marked :
                  Cardinality(ChildrenOf(e, c, halfedge'.cell)) = k[c]
            /\ NC' = NC + SumOver(last'.marked, k) - Cardinality(last'.marked)]_vars

\* a full refine_poly with marked cells has returned a mesh that holds a
\* cell of level 2: a child of a child, next to cells with hanging nodes
C10_Witness ==
    /\ status = "ok"
    /\ last.op = "refine"
    /\ last.marked # {}
    /\ \E c \in Idx(NC) : clevel[c] >= 2

\* C10: a full refine_poly adds one edge per selected main half-edge and one
\* per fresh rim half-edge of a marked cell: the table grows by
\* 2*NE1 + 2*NHE rows, and the rows it had keep their index (head node and
\* main bit unchanged).
C10_EdgeCountGrowth ==
    [][FullRefineReturns =>
        \A MH \in {isMarkedHEdge(mesh, MarkedVector(NC, last'.marked))} :
        \A e \in {split_edges(mesh, MH)} :
            LET NE1 == Cardinality({h \in MH : halfedge.main[h] = 1})
                NHE == Cardinality(UNION {FreshRim(e, c) : c \in last'.marked})
            IN  /\ Rows(halfedge') \div 2 = Rows(halfedge) \div 2 + NE1 + NHE
                /\ Rows(halfedge') = Rows(halfedge) + 2 * NE1 + 2 * NHE
                /\ \A h \in Idx(Rows(halfedge)) :
                      /\ halfedge'.to[h] = halfedge.to[h]
                      /\ halfedge'.main[h] = halfedge.main[h]]_vars

(***************************************************************************)
(* Levels and ids of the cells a full refine_poly leaves.                  *)
(***************************************************************************)
\* C11: after refine_poly in full mode every child of a marked cell has the
\* cell level of its parent before the call plus 1, every unmarked cell
\* keeps its cell level (read at its id after the compaction), and the
\* level of the sentinel is 0.
C11_ChildLevels ==
    [][FullRefineReturns =>
        \A e \in {AfterEdgeSplit(last'.marked)} :
            /\ \A c \in last'.marked :
                  \A d \in ChildrenOf(e, c, halfedge'.cell) :
                      clevel'[d] = clevel[c] + 1
            /\ \A c \in Idx(NC) \ last'.marked :
                  \A d \in ChildrenOf(e, c, halfedge'.cell) :
                      clevel'[d] = clevel[c]
            /\ Size(clevel') = NC' + 1
            /\ clevel'[NC'] = 0]_vars

C13_CellLevelAtMostHEdgeLevel ==
    status = "ok" =>
        \A h \in Idx(Rows(halfedge)) :
            /\ InR(halfedge.cell[h], Size(clevel))
            /\ clevel[halfedge.cell[h]] <= hlevel[h]

\* C13 as amended: when a full refine_poly returns, every half-edge it has
\* created that points to a new barycenter node has exactly the level of the
\* cell it lies in (so cell_level[cell[h]] <= halfedge_level[h] holds for
\* these spokes); the rim half-edges of a child keep their lower levels.
C13_SpokeLevelIsCellLevel ==
    [][FullRefineReturns =>
        \A N2 \in {Rows(AfterEdgeSplit(last'.marked).halfedge)} :
            \A h \in Idx(Rows(halfedge')) \ Idx(N2) :
                halfedge'.to[h] >= NN' - Cardinality(last'.marked) =>
                    /\ InR(halfedge'.cell[h], Size(clevel'))
                    /\ clevel'[halfedge'.cell[h]] = hlevel'[h]]_vars

\* a full refine_poly has split a child: a spoke of level 2 lies in a cell
\* of level 2 that keeps a half-edge of lower level
C13_Witness ==
    /\ status = "ok"
    /\ last.op = "refine"
    /\ \E h \in Idx(Rows(halfedge)) :
          /\ halfedge.to[h] >= NN - Cardinality(last.marked)
          /\ hlevel[h] = 2
          /\ clevel[halfedge.cell[h]] = 2
          /\ \E g \in Idx(Rows(halfedge)) :
                halfedge.cell[g] = halfedge.cell[h] /\ hlevel[g] < 2

\* C14 as stated: in every reachable mesh every half-edge h has
\* halfedge_level[h] >= halfedge_level[next[h]] - 1.
C14_LevelRisesByAtMostOne ==
    status = "ok" =>
        \A h \in Idx(Rows(halfedge)) :
            /\ InR(halfedge.next[h], Rows(halfedge))
            /\ hlevel[h] >= hlevel[halfedge.next[h]] - 1

\* C14 as amended: refine_poly (full or edge-only) leaves the level of every
\* existing half-edge as it was, and the half-edge it inserts before a
\* selected main half-edge h gets the level
\* max(halfedge_level[h], halfedge_level[prev[h]]) + 1, one above the larger
\* of the two levels it is put between.
C14_InsertedLevel ==
    [][(last'.op \in {"refine", "edges"} /\ status' = "ok") =>
        \A MH \in {isMarkedHEdge(mesh, MarkedVector(NC, last'.marked))} :
            /\ \A h \in Idx(Rows(halfedge)) : hlevel'[h] = hlevel[h]
            /\ \A h \in MH :
                  halfedge.main[h] = 1 =>
                      hlevel'[Rows(halfedge) + Rank(MH, h)] =
                          Max2(hlevel[h], hlevel[halfedge.prev[h]]) + 1]_vars

\* a second refinement of the same corner has put a half-edge of level 2
\* right after a half-edge of level 0
C14_Witness ==
    /\ status = "ok"
    /\ last.op \in {"refine", "edges"}
    /\ \E h \in Idx(Rows(halfedge)) :
          /\ InR(halfedge.next[h], Rows(halfedge))
          /\ hlevel[h] = 0
          /\ hlevel[halfedge.next[h]] = 2

(***************************************************************************)
(* The nodes coarsen_poly removes.                                         *)
(***************************************************************************)
CoarsenReturns == last'.op = "coarsen" /\ status' = "ok"

\* C15: every node coarsen_poly selects as removable by its three-condition
\* test is a barycenter created by an earlier refine_poly, and every node of
\* the imported mesh is still in the node table when the call returns.
C15_OnlyBarycentersRemovable ==
    [][CoarsenReturns =>
        /\ \A n \in isRNode(mesh, MarkedVector(NC, last'.marked)) :
              node[n] = BaryCenter
        /\ \A n \in Idx(Size(node)) :
              node[n] >= 0 => \E n2 \in Idx(Size(node')) : node'[n2] = node[n]]_vars

\* C16: a node whose fixed-node flag is true is never removed by
\* coarsen_poly: every node flagged fixed (the flags are given at
\* construction, one per imported node) that is in the node table before a
\* coarsen_poly call is in the node table after it.
C16_FixedNodesStay ==
    [][CoarsenReturns =>
        \A n \in Idx(Size(node)) :
            (node[n] >= 0 /\ fixednode[node[n]]) =>
                \E n2 \in Idx(Size(node')) : node'[n2] = node[n]]_vars

(***************************************************************************)
(* The subdomain tags of the cells.                                        *)
(***************************************************************************)
\* C17: after refine_poly in full mode on a mesh that carries subdomain
\* tags, the tag array has one entry per cell of the new mesh (with or
\* without one for the sentinel), every child of a marked cell has the tag
\* its parent had before the call, and every unmarked cell has its own tag
\* at its new id.
C17_ChildrenInheritTag ==
    [][FullRefineReturns =>
        \A e \in {AfterEdgeSplit(last'.marked)} :
            /\ Size(subdomain') \in {NC', NC' + 1}
            /\ \A c \in Idx(NC) :
                  \A d \in ChildrenOf(e, c, halfedge'.cell) :
                      /\ InR(d, Size(subdomain'))
                      /\ subdomain'[d] = subdomain[c]]_vars

(***************************************************************************)
(* C18: after coarsen_poly every cell fused from the star of a removed    *)
(* node has cell level (half-edge level of that node) - 1, floored at 0,  *)
(* every other cell keeps its level, and the level array has one entry    *)
(* per compacted cell id plus the sentinel.                               *)
(***************************************************************************)
C18_FusedCellLevels ==
    [][CoarsenReturns =>
        \A r \in {coarsen_poly(mesh, MarkedVector(NC, last'.marked))} :
        \A R \in {isRNode(mesh, MarkedVector(NC, last'.marked))} :
            /\ Size(clevel') = NC' + 1
            /\ \A h \in r.keep :
                  /\ InR(halfedge'.cell[Rank(r.keep, h)], Size(clevel'))
                  /\ \A g \in Idx(Rows(halfedge)) :
                        (halfedge.to[g] \in R /\ halfedge.cell[g] = halfedge.cell[h]) =>
                            clevel'[halfedge'.cell[Rank(r.keep, h)]] = Max2(hlevel[g] - 1, 0)
                  /\ (\A g \in Idx(Rows(halfedge)) :
                        ~(halfedge.to[g] \in R /\ halfedge.cell[g] = halfedge.cell[h])) =>
                            clevel'[halfedge'.cell[Rank(r.keep, h)]] = clevel[halfedge.cell[h]]]_vars

(***************************************************************************)
(* Queries of HalfEdgeMesh2dDataStructure, computed on the current mesh.   *)
(* A query that indexes outside an array has the status "raised", one     *)
(* whose loop never ends the status "hung".                                *)
(***************************************************************************)
\* the half-edge reached from h by k reads of the next column (lines 685,
\* 788); -1 when a read leaves the table
RECURSIVE nth_next(_, _, _)
nth_next(nxt, h, k) ==
    IF ~InR(h, Size(nxt)) THEN -1
    ELSE IF k = 0 THEN h
    ELSE nth_next(nxt, nxt[h], k - 1)

\* cell_to_node, lines 679-689: the values `current` takes for cell c, that
\* is cell2hedge[c] followed by NV[c] - 1 reads of next
cell_ring(he, c2h, c) ==
    Fn([k \in Idx(number_of_vertices_of_cells(he, c)) |->
            nth_next(he.next, c2h[c], k)])

\* cell_to_node(sparse=False), lines 675-690: cellLocation is the running
\* sum of NV, and the block of cell c in cell2node holds the heads of the
\* half-edges of its walk (of two cells writing the same position at line
\* 681 the later one wins)
cell_to_node(nc, he, c2h) ==
    LET cellLocation == Fn([c \in Idx(nc + 1) |->
                               Cardinality({h \in Idx(Rows(he)) : he.cell[h] < c})])
        current == Fn([c \in Idx(nc) |-> cell_ring(he, c2h, c)])
        owner == Fn([p \in Idx(cellLocation[nc]) |->
                        CHOOSE c \in Idx(nc) :
                            /\ cellLocation[c] <= p
                            /\ \A d \in Idx(nc) : cellLocation[d] <= p => d <= c])
    IN  IF \/ \E c \in Idx(nc) : ~InR(c2h[c], Rows(he))
           \/ \E c \in Idx(nc) : \E k \in DOMAIN current[c] : current[c][k] = -1
           \/ \E c \in Idx(nc) : cellLocation[c] >= cellLocation[nc]
        THEN [status |-> "raised"]
        ELSE [status |-> "ok",
              cellLocation |-> cellLocation,
              cell2node |-> Fn([p \in Idx(cellLocation[nc]) |->
                                   he.to[current[owner[p]][p - cellLocation[owner[p]]]]])]

\* C20: in every reachable mesh cell_to_node(sparse=False) returns for each
\* non-sentinel cell c the heads of the walk along next from cell2hedge[c];
\* the walk of vertices_per_cell[c] steps visits every half-edge of cell c
\* exactly once and closes, so the half-edges of c form one next-cycle.
C20_CellRingIsNextCycle ==
    status = "ok" =>
        \A r \in {cell_to_node(NC, halfedge, cell2hedge)} :
            /\ r.status = "ok"
            /\ \A c \in Idx(NC) :
                  \A w \in {cell_ring(halfedge, cell2hedge, c)} :
                      /\ Size(w) >= 1
                      /\ {w[k] : k \in DOMAIN w} =
                            {h \in Idx(Rows(halfedge)) : halfedge.cell[h] = c}
                      /\ halfedge.next[w[Size(w) - 1]] = w[0]
                      /\ \A k \in DOMAIN w :
                            r.cell2node[r.cellLocation[c] + k] = halfedge.to[w[k]]

\* edge_to_cell, lines 765-768: the edge number J of every half-edge; the
\* k-th main half-edge and its opposite get the number k (the later
\* assignment wins where the two overlap)
edge_numbers(he) ==
    LET N  == Rows(he)
        mr == Nonzero({h \in Idx(N) : he.main[h] = 1})
        K  == Size(mr)
        k0 == Fn([k \in Idx(K) |-> k])
    IN  Scatter(Scatter(Fn([h \in Idx(N) |-> 0]), mr, k0, K),
                Fn([k \in Idx(K) |-> he.opp[mr[k]]]), k0, K)

\* edge_to_cell, lines 779-790, for one cell: the half-edges `current`
\* takes from its first value until next leads back to it; the loop does
\* not end ("hung") when fuel reads of next never lead back, and fails
\* ("raised") when a read leaves the table
RECURSIVE edge_walk(_, _, _, _)
edge_walk(nxt, end, acc, fuel) ==
    IF ~InR(acc[Len(acc)], Size(nxt)) THEN [status |-> "raised", ring |-> acc]
    ELSE IF nxt[acc[Len(acc)]] = end THEN [status |-> "ok", ring |-> acc]
    ELSE IF fuel = 0 THEN [status |-> "hung", ring |-> acc]
    ELSE edge_walk(nxt, end, Append(acc, nxt[acc[Len(acc)]]), fuel - 1)

\* lines 786-787: the local index written last into column col of edge e;
\* pass t of the loop writes t, so the latest pass that meets a half-edge of
\* edge e with the matching main bit decides (0 when none does)
local_index(he, J, walks, e, isMain) ==
    LET T == {t \in Idx(Rows(he)) :
                 \E c \in DOMAIN walks :
                     /\ t < Len(walks[c].ring)
                     /\ J[walks[c].ring[t + 1]] = e
                     /\ (he.main[walks[c].ring[t + 1]] = 1) = isMain}
    IN  IF T = {} THEN 0 ELSE CHOOSE t \in T : \A u \in T : u <= t

\* lines 775-777 and 792-795: the table from the edge numbers J and the
\* walks; row e is (cell of the main half-edge, cell of its opposite, local
\* index of the main half-edge, local index of the opposite), and a row whose
\* second cell is the sentinel repeats its first cell and first local index
edge_rows(nc, he, mr, J, walks) ==
    LET NE   == Rows(he) \div 2
        col0 == Scatter(Fn([e \in Idx(NE) |-> 0]),
                        Fn([k \in Idx(NE) |-> J[mr[k]]]),
                        Fn([k \in Idx(NE) |-> he.cell[mr[k]]]), NE)
        col1 == Scatter(Fn([e \in Idx(NE) |-> 0]),
                        Fn([k \in Idx(NE) |-> J[he.opp[mr[k]]]]),
                        Fn([k \in Idx(NE) |-> he.cell[he.opp[mr[k]]]]), NE)
        col2 == Fn([e \in Idx(NE) |-> local_index(he, J, walks, e, TRUE)])
        col3 == Fn([e \in Idx(NE) |-> local_index(he, J, walks, e, FALSE)])
    IN  Fn([e \in Idx(NE) |->
               IF col1[e] = nc
               THEN Arr(<<col0[e], col0[e], col2[e], col2[e]>>)
               ELSE Arr(<<col0[e], col1[e], col2[e], col3[e]>>)])

\* edge_to_cell(sparse=False), lines 760-795
edge_to_cell(nc, he, c2h) ==
    LET N  == Rows(he)
        mr == Nonzero({h \in Idx(N) : he.main[h] = 1})
    IN  IF \/ Size(mr) # N \div 2
           \/ \E k \in DOMAIN mr : ~InR(he.opp[mr[k]], N)
           \/ \E c \in Idx(nc) : ~InR(c2h[c], N)
        THEN [status |-> "raised"]
        ELSE CHOOSE r \in
                 {IF \E c \in Idx(nc) : walks[c].status = "raised"
                  THEN [status |-> "raised"]
                  ELSE IF \E c \in Idx(nc) : walks[c].status = "hung"
                  THEN [status |-> "hung"]
                  ELSE [status |-> "ok",
                        edge2cell |-> edge_rows(nc, he, mr, J, walks)] :
                     J \in {edge_numbers(he)},
                     walks \in {Fn([c \in Idx(nc) |->
                                   edge_walk(he.next, he.next[c2h[c]],
                                             <<he.next[c2h[c]]>>, N)])}} : TRUE

\* boundary_edge_flag, lines 830-833
boundary_edge_flag(edge2cell) ==
    Fn([e \in DOMAIN edge2cell |-> edge2cell[e][0] = edge2cell[e][1]])

\* C19: in every reachable mesh boundary_edge_flag[e] is true exactly when
\* one of the two half-edges of edge e (the e-th main half-edge and its
\* opposite) has the sentinel as its cell, and edge_to_cell reports such an
\* edge with both cell entries equal to the interior cell and both
\* local-index entries equal.
C19_BoundaryEdgeFlag ==
    status = "ok" =>
        \A r \in {edge_to_cell(NC, halfedge, cell2hedge)} :
            /\ r.status = "ok"
            /\ \A mr \in {Nonzero({h \in Idx(Rows(halfedge)) : halfedge.main[h] = 1})} :
               \A isBdEdge \in {boundary_edge_flag(r.edge2cell)} :
               \A e \in DOMAIN r.edge2cell :
                  \A h \in {mr[e]} : \A g \in {halfedge.opp[mr[e]]} :
                      /\ isBdEdge[e] <=> ((halfedge.cell[h] = NC) # (halfedge.cell[g] = NC))
                      /\ (halfedge.cell[h] # NC /\ halfedge.cell[g] = NC) =>
                            /\ r.edge2cell[e][0] = halfedge.cell[h]
                            /\ r.edge2cell[e][1] = halfedge.cell[h]
                            /\ r.edge2cell[e][2] = r.edge2cell[e][3]
                      /\ (halfedge.cell[h] = NC /\ halfedge.cell[g] # NC) =>
                            /\ r.edge2cell[e][0] = halfedge.cell[g]
                            /\ r.edge2cell[e][1] = halfedge.cell[g]
                            /\ r.edge2cell[e][2] = r.edge2cell[e][3]

\* cell_to_cell, lines 729-738: rows I are the cells of the non-sentinel
\* half-edges, columns J the cells of their opposites; coo_matrix with
\* shape (NC, NC) rejects a row or column outside 0..NC-1, and the sum with
\* the transposed triples makes the relation symmetric
cell_to_cell(nc, he) ==
    LET N        == Rows(he)
        isInHEdge == {h \in Idx(N) : he.cell[h] # nc}
    IN  IF \/ \E h \in isInHEdge : ~InR(he.opp[h], N)
           \/ \E h \in isInHEdge : ~InR(he.cell[h], nc)
           \/ \E h \in isInHEdge : ~InR(he.cell[he.opp[h]], nc)
        THEN [status |-> "raised"]
        ELSE [status |-> "ok",
              cell2cell |-> {<<he.cell[h], he.cell[he.opp[h]]>> : h \in isInHEdge}
                            \cup {<<he.cell[he.opp[h]], he.cell[h]>> : h \in isInHEdge}]

\* C21: on every reachable mesh cell_to_cell completes, using no row or
\* column outside 0..NC-1, and returns the symmetric relation over the
\* non-sentinel cells in which (c, d) is set exactly when some half-edge of c
\* has its opposite in d.
C21_CellAdjacency ==
    status = "ok" =>
        \A r \in {cell_to_cell(NC, halfedge)} :
            /\ r.status = "ok"
            /\ \A c \in Idx(NC) : \A d \in Idx(NC) :
                  /\ <<c, d>> \in r.cell2cell <=>
                        \E h \in Idx(Rows(halfedge)) :
                            /\ halfedge.cell[h] = c
                            /\ InR(halfedge.opp[h], Rows(halfedge))
                            /\ halfedge.cell[halfedge.opp[h]] = d
                  /\ <<c, d>> \in r.cell2cell <=> <<d, c>> \in r.cell2cell

(***************************************************************************)
(* The fixture of HalfEdgeMeshTest.refine_poly_test: the 3x3 lattice of    *)
(* nine nodes cut into five polygons, converted by from_polygonmesh, and   *)
(* the six refine_poly passes the test makes on it.                        *)
(***************************************************************************)
\* lines 16-19 of the test: the node coordinates
S1_node ==
    Arr(<< <<0, 0>>, <<0, 1>>, <<0, 2>>,
           <<1, 0>>, <<1, 1>>, <<1, 2>>,
           <<2, 0>>, <<2, 1>>, <<2, 2>> >>)

\* lines 20-25 of the test through from_polygonmesh: the cells (0,3,4),
\* (4,1,0), (1,4,5,2), (3,6,7,4), (4,7,8,5); edge k is the k-th node pair in
\* lexicographic order, its main half-edge k lies in the first cell that
\* lists it and half-edge 13 + k is the opposite one; no node flags and no
\* cell tags are passed
Mesh_S1 ==
    [NN |-> 9, NC |-> 5,
     halfedge |-> [
        to   |-> Arr(<<0, 3, 0, 1, 1, 2, 4, 6, 5, 4, 5, 7, 8,
                       1, 0, 4, 2, 4, 5, 3, 3, 4, 7, 8, 6, 7>>),
        cell |-> Arr(<<1, 0, 0, 2, 1, 2, 0, 3, 2, 3, 4, 3, 4,
                       5, 5, 1, 5, 2, 5, 3, 5, 4, 4, 5, 5, 5>>),
        next |-> Arr(<<15, 6, 1, 17, 0, 3, 2, 11, 5, 19, 21, 9, 10,
                       16, 13, 4, 18, 8, 23, 7, 14, 22, 12, 25, 20, 24>>),
        prev |-> Arr(<<4, 2, 6, 5, 15, 8, 1, 19, 17, 11, 12, 7, 22,
                       14, 20, 0, 13, 3, 16, 9, 24, 10, 21, 18, 25, 23>>),
        opp  |-> Arr(<<13, 14, 15, 16, 17, 18, 19, 20, 21, 22, 23, 24, 25,
                       0, 1, 2, 3, 4, 5, 6, 7, 8, 9, 10, 11, 12>>),
        main |-> Arr(<<1, 1, 1, 1, 1, 1, 1, 1, 1, 1, 1, 1, 1,
                       0, 0, 0, 0, 0, 0, 0, 0, 0, 0, 0, 0, 0>>)],
     fixednode |-> Arr(<<>>),
     subdomain |-> Arr(<<>>)]

\* lines 30-66 of the test: the cells marked in the six passes
S2Marks == << {2}, {6}, {3}, {1, 5}, {1, 12}, {0, 21} >>

\* how many cells a call made beside the test's own passes marks at most
MaxProbe == 1

FixtureInit ==
    /\ NN = Mesh_S1.NN
    /\ NC = Mesh_S1.NC
    /\ halfedge = Mesh_S1.halfedge
    /\ hlevel = init_level_info(Rows(Mesh_S1.halfedge))
    /\ clevel = init_level_info(Mesh_S1.NC + 1)
    /\ cell2hedge = reinit(Mesh_S1.NC, Mesh_S1.halfedge)
    /\ status = "ok"
    /\ last = [op |-> "import", marked |-> {}]
    /\ nops = 0
    /\ node = Fn([n \in Idx(Mesh_S1.NN) |-> n])
    /\ fixednode = Mesh_S1.fixednode
    /\ subdomain = Mesh_S1.subdomain

\* the mesh is the one the test has after its first nops passes
OnFixture ==
    /\ status = "ok"
    /\ nops = 0 \/ (last.op = "refine" /\ last.marked = S2Marks[nops])

\* the next pass of the test
FixturePass ==
    /\ OnFixture
    /\ nops < Len(S2Marks)
    /\ \E S \in {S2Marks[nops + 1]} :
        \E r \in {refine_poly(mesh, MarkedVector(NC, S), FALSE)} :
            /\ Install(r)
            /\ cell2hedge' = IF r.status = "ok" THEN reinit(r.NC, r.halfedge)
                             ELSE cell2hedge
            /\ last' = [op |-> "refine", marked |-> S]
            /\ node' = IF r.status = "ok" THEN refined_nodes(node, r.NE1, r.NN)
                       ELSE node
            /\ UNCHANGED <<fixednode, subdomain>>

ProbeMarks == {S \in SUBSET Idx(NC) : Cardinality(S) <= MaxProbe}

\* one other call on a mesh of the test
ProbeRefine ==
    /\ OnFixture
    /\ nops < Len(S2Marks)
    /\ \E S \in ProbeMarks : \E dflag \in BOOLEAN :
        \E r \in {refine_poly(mesh, MarkedVector(NC, S), dflag)} :
            /\ Install(r)
            /\ cell2hedge' = IF r.status = "ok" THEN reinit(r.NC, r.halfedge)
                             ELSE cell2hedge
            /\ last' = [op |-> IF dflag THEN "edges" ELSE "refine", marked |-> S]
            /\ node' = IF r.status = "ok" THEN refined_nodes(node, r.NE1, r.NN)
                       ELSE node
            /\ UNCHANGED <<fixednode, subdomain>>

ProbeCoarsen ==
    /\ OnFixture
    /\ nops < Len(S2Marks)
    /\ \E S \in ProbeMarks :
        \E r \in {coarsen_poly(mesh, MarkedVector(NC, S))} :
            /\ Install(r)
            /\ cell2hedge' = IF r.status = "ok" /\ r.reinit
                             THEN reinit(r.NC, r.halfedge) ELSE cell2hedge
            /\ last' = [op |-> "coarsen", marked |-> S]
            /\ node' = IF r.status = "ok" /\ r.reinit THEN Take(node, r.keepN)
                       ELSE node
            /\ UNCHANGED <<fixednode, subdomain>>

FixtureNext == FixturePass \/ ProbeRefine \/ ProbeCoarsen

FixtureSpec == FixtureInit /\ [][FixtureNext]_vars

\* cell_barycenter, lines 270-290, for cell c of a table whose nodes have the
\* integer coordinates nd: val is the cross product of the two ends of a
\* half-edge, and the centroid is sum(val * (e0 + e1) / 2) / (3 * sum(val) / 2),
\* returned as the fractions x = <<Sx, D>>, y = <<Sy, D>> with D = 3 * sum(val)
cell_barycenter(nd, he, c) ==
    LET H   == {h \in Idx(Rows(he)) : he.cell[h] = c}
        e0  == Fn([h \in Idx(Rows(he)) |-> nd[he.to[he.prev[h]]]])
        e1  == Fn([h \in Idx(Rows(he)) |-> nd[he.to[h]]])
        val == Fn([h \in Idx(Rows(he)) |-> e0[h][1] * e1[h][2] - e1[h][1] * e0[h][2]])
        D   == 3 * SumOver(H, val)
    IN  [x |-> <<SumOver(H, Fn([h \in Idx(Rows(he)) |-> val[h] * (e0[h][1] + e1[h][1])])), D>>,
         y |-> <<SumOver(H, Fn([h \in Idx(Rows(he)) |-> val[h] * (e0[h][2] + e1[h][2])])), D>>]

\* the fraction q = <<numerator, denominator>> has the value a / b
IsFraction(q, a, b) == q[2] # 0 /\ q[1] * b = a * q[2]

\* the half-edges of cell d are one cycle of next of k half-edges, the one
\* cell_to_node walks from cell2hedge[d]
IsPolygon(he, c2h, d, k) ==
    \A w \in {cell_ring(he, c2h, d)} :
        /\ Size(w) = k
        /\ {w[i] : i \in DOMAIN w} = {h \in Idx(Rows(he)) : he.cell[h] = d}
        /\ he.next[w[k - 1]] = w[0]

\* the first pass of the test: refine_poly on the imported fixture with
\* cell 2 marked
S1FirstPass == nops = 0 /\ last'.op = "refine" /\ last'.marked = {2}

\* after the first pass: 8 cells, one new barycenter node, at (1/2, 3/2),
\* and cell 2 replaced by four children with k half-edges each
S1FirstPassGives(k) ==
    /\ status' = "ok"
    /\ NC' = 8
    /\ Cardinality({n \in DOMAIN node' : node'[n] = BaryCenter}) = 1
    /\ node'[NN' - 1] = BaryCenter
    /\ \A bc \in {cell_barycenter(S1_node, halfedge, 2)} :
          IsFraction(bc.x, 1, 2) /\ IsFraction(bc.y, 3, 2)
    /\ \A kids \in {ChildrenOf(AfterEdgeSplit({2}), 2, halfedge'.cell)} :
          /\ Cardinality(kids) = 4
          /\ \A d \in kids : IsPolygon(halfedge', cell2hedge', d, k)

\* C22: on the fixture S1, one full refine_poly with only cell 2 marked gives
\* 8 cells, adds one barycenter node at (0.5, 1.5), and replaces cell 2 by
\* exactly four children each of which is a triangle, a cycle of three
\* half-edges.
C22_S1FourTriangles == [][S1FirstPass => S1FirstPassGives(3)]_vars

\* C22 as amended: the four children are quadrilaterals, cycles of four
\* half-edges (two halves of split edges and two spokes to the barycenter).
C22_S1FourQuadrilaterals == [][S1FirstPass => S1FirstPassGives(4)]_vars

\* the first pass of the test has been made
C22_Witness ==
    /\ status = "ok"
    /\ nops = 1
    /\ last = [op |-> "refine", marked |-> {2}]
    /\ NC = 8

\* the half-edges of the sentinel cell
sentinel_hedges(he, nc) == {h \in Idx(Rows(he)) : he.cell[h] = nc}

\* Steps of next from the first sentinel half-edge back to itself; 0 when the
\* walk does not return within the number of sentinel half-edges.
boundary_cycle_length(he, nc) ==
    LET B  == sentinel_hedges(he, nc)
        h0 == CHOOSE h \in B : \A g \in B : h <= g
        K  == {k \in 1..Cardinality(B) : nth_next(he.next, h0, k) = h0}
    IN  IF B = {} \/ K = {} THEN 0
        ELSE CHOOSE k \in K : \A j \in K : k <= j

\* the six passes of refine_poly_test have been made
S2Reached == OnFixture /\ nops = Len(S2Marks)

\* C23: after the six passes of the fixture (cells {2}, {6}, {3}, {1,5},
\* {1,12}, {0,21} marked in turn) the sentinel half-edges form one cycle of
\* next, and that cycle has 8 half-edges.
C23_S2BoundaryCycle8 ==
    S2Reached => /\ boundary_cycle_length(halfedge, NC) = 8
                 /\ Cardinality(sentinel_hedges(halfedge, NC)) = 8

\* C23, with the length the six passes leave: every pass splits the boundary
\* edges of the cells it marks, so the cycle of 8 sentinel half-edges of S1
\* has grown to 17.
C23_S2BoundaryCycle17 ==
    S2Reached => /\ boundary_cycle_length(halfedge, NC) = 17
                 /\ Cardinality(sentinel_hedges(halfedge, NC)) = 17

C23_Witness ==
    /\ S2Reached
    /\ NC = 30
    /\ boundary_cycle_length(halfedge, NC) = 17

(***************************************************************************)
(* The data argument of refine_poly, lines 382-389: every per-node array   *)
(* of the dict is replaced by an extended one.  A value is kept as the     *)
(* fraction <<numerator, denominator>>.                                    *)
(***************************************************************************)
\* the per-node arrays a caller passes for a mesh of nn nodes
DataArrays(nn) == {Fn([n \in Idx(nn) |-> n]), Fn([n \in Idx(nn) |-> 1])}

\* lines 384-389: data[key] after the call, for data[key] = value before it
refine_data(m, isMarkedCell, value) ==
    LET he     == m.halfedge
        MH     == isMarkedHEdge(m, isMarkedCell)
        F0     == {h \in MH : he.main[h] = 1}
        f0     == Nonzero(F0)
        marked == {c \in Idx(m.NC + 1) : isMarkedCell[c]}
        mk     == Nonzero(marked)
        old    == Fn([n \in Idx(Size(value)) |-> <<value[n], 1>>])
        evalue == Fn([i \in Idx(Cardinality(F0)) |->
                      <<value[he.to[f0[i]]] + value[he.to[he.opp[f0[i]]]], 2>>])
        cvalue == Fn([i \in Idx(Cardinality(marked)) |->
                      LET ring == {h \in Idx(Rows(he)) : he.cell[h] = mk[i]}
                      IN  <<SumOver(ring, [h \in ring |-> value[he.to[h]]]),
                            number_of_vertices_of_cells(he, mk[i])>>])
    IN  Concat(Concat(old, evalue), cvalue)

RefineReturns == last'.op \in {"refine", "edges"} /\ status' = "ok"

\* the array D extends value as the nodes of the new mesh extend the old ones
DataFollowsNodes(value, D) ==
    LET S  == last'.marked
        MH == isMarkedHEdge(mesh, MarkedVector(NC, S))
        to1 == midpoint_nodes(mesh, MH)
        NE1 == Cardinality({h \in MH : halfedge.main[h] = 1})
    IN  /\ Size(D) = NN'
        /\ \A i \in Idx(NN) : D[i] = <<value[i], 1>>
        /\ \A i \in (DOMAIN D) \cap (NN..(NN' - 1)) :
              /\ node'[i] = MidPoint =>
                    \E h \in MH :
                        /\ to1[Rank(MH, h)] = i
                        /\ IsFraction(D[i], value[halfedge.to[h]]
                                            + value[halfedge.to[halfedge.opp[h]]], 2)
              /\ node'[i] = BaryCenter =>
                    \E c \in S :
                        /\ i = NN + NE1 + Rank(S, c)
                        /\ LET ring == {h \in Idx(Rows(halfedge)) : halfedge.cell[h] = c}
                           IN  IsFraction(D[i],
                                   SumOver(ring, [h \in ring |-> value[halfedge.to[h]]]),
                                   Cardinality(ring))

\* C24: after refine_poly(marked, data, dflag) returns, in the full mode and
\* in the edge-only mode, every per-node array of data has exactly as many
\* entries as the new mesh has nodes, entry i belonging to node i: the old
\* values, then for every midpoint node the mean of the values at the two
\* ends of its edge, then for every barycenter node the mean of the values
\* at the old vertices of its cell.
C24_DataFollowsNodes ==
    [][RefineReturns =>
        \A value \in DataArrays(NN) :
            \A D \in {refine_data(mesh, MarkedVector(NC, last'.marked), value)} :
                DataFollowsNodes(value, D)]_vars

EdgesReturns == last'.op = "edges" /\ status' = "ok"

\* the undirected edges the call selects: the pairs {h, opp[h]} of lines
\* 369-374
SelectedEdges ==
    {{h, halfedge.opp[h]} :
        h \in isMarkedHEdge(mesh, MarkedVector(NC, last'.marked))}

\* what the edge-only mode leaves alone and what it adds
EdgeOnlyFrame ==
    /\ NC' = NC
    /\ clevel' = clevel
    /\ Rows(halfedge') >= Rows(halfedge)
    /\ \A h \in Idx(Rows(halfedge)) : halfedge'.cell[h] = halfedge.cell[h]
    /\ NN' = NN + Cardinality(SelectedEdges)
    /\ Rows(halfedge') = Rows(halfedge) + 2 * Cardinality(SelectedEdges)

\* the structural laws, read on the mesh a call leaves
StructureAfter ==
    /\ C1_OppInvolution'
    /\ C2_NextPrevInverse'
    /\ C4_TailIsHeadOfPrev'
    /\ C5_OneMainPerPair'

\* C25: refine_poly in the edge-only mode (dflag true) splits edges and no
\* cell: the cell count, the cell of every half-edge that existed before and
\* the cell levels are unchanged, the node count and the edge count each grow
\* by the number of selected undirected edges, and the mesh it leaves has
\* opp an involution, next and prev inverse, to[opp[h]] = to[prev[h]] and
\* main[h] + main[opp[h]] = 1.
C25_EdgeOnlySplit == [][EdgesReturns => EdgeOnlyFrame /\ StructureAfter]_vars

(***************************************************************************)
(* Calls whose marked vector has not the length NC + 1.                    *)
(***************************************************************************)
\* by how many entries a marked vector is too short or too long at most
MaxSkew == 1

\* the lengths other than NC + 1 a caller passes
WrongLengths(nc) ==
    {n \in (nc + 1 - MaxSkew)..(nc + 1 + MaxSkew) : n >= 0 /\ n # nc + 1}

\* np.zeros(n, dtype=np.bool) with the cells of S set
ShapeVector(n, S) == Fn([c \in Idx(n) |-> c \in S])

RefineWrongLength ==
    /\ CanCall
    /\ \E n \in WrongLengths(NC) : \E S \in SUBSET (Idx(NC) \cap Idx(n)) :
       \E dflag \in BOOLEAN :
        \E r \in {refine_poly(mesh, ShapeVector(n, S), dflag)} :
            /\ Install(r)
            /\ cell2hedge' = IF r.status = "ok" THEN reinit(r.NC, r.halfedge)
                             ELSE cell2hedge
            /\ last' = [op |-> IF dflag THEN "edges" ELSE "refine",
                        marked |-> S, length |-> n]
            /\ node' = IF r.status = "ok" THEN refined_nodes(node, r.NE1, r.NN)
                       ELSE node
            /\ UNCHANGED <<fixednode, subdomain>>

CoarsenWrongLength ==
    /\ CanCall
    /\ \E n \in WrongLengths(NC) : \E S \in SUBSET (Idx(NC) \cap Idx(n)) :
        \E r \in {coarsen_poly(mesh, ShapeVector(n, S))} :
            /\ Install(r)
            /\ cell2hedge' = IF r.status = "ok" /\ r.reinit
                             THEN reinit(r.NC, r.halfedge) ELSE cell2hedge
            /\ last' = [op |-> "coarsen", marked |-> S, length |-> n]
            /\ node' = IF r.status = "ok" /\ r.reinit THEN Take(node, r.keepN)
                       ELSE node
            /\ UNCHANGED <<fixednode, subdomain>>

ShapeNext ==
    \/ RefinePoly
    \/ RefineEdges
    \/ CoarsenPoly
    \/ RefineWrongLength
    \/ CoarsenWrongLength

ShapeSpec == Init /\ [][ShapeNext]_vars

\* the step is a call with a marked vector of a wrong length
WrongLengthCall == nops' = nops + 1 /\ "length" \in DOMAIN last'

MeshUnchanged ==
    UNCHANGED <<NN, NC, halfedge, hlevel, clevel, cell2hedge, node>>

\* C26: refine_poly and coarsen_poly called with a marked vector that is
\* shorter or longer than NC + 1 end in an error, and a call that ends in an
\* error leaves the mesh exactly as it was.
C26_WrongLengthRejected ==
    [][WrongLengthCall => status' = "raised" /\ MeshUnchanged]_vars

\* the half-edges a refine_poly call with the cells S marked splits
Selected(S) == isMarkedHEdge(mesh, MarkedVector(NC, S))

\* the row of halfedge1 (lines 391-410) made for the selected half-edge h:
\* the new half-edge put between prev[h] and h
InsertedFor(S, h) == Rows(halfedge) + Rank(Selected(S), h)

\* C27: when refine_poly splits a selected half-edge h into the new
\* half-edge h' and h, one of the two carries the main bit h had and the
\* other one the opposite bit.
C27_MainBitsOpposite ==
    [][RefineReturns =>
        \A h \in Selected(last'.marked) :
            \E g \in {InsertedFor(last'.marked, h)} :
                /\ g \in Idx(Rows(halfedge'))
                /\ {halfedge'.main[h], halfedge'.main[g]}
                       = {halfedge.main[h], 1 - halfedge.main[h]}]_vars

\* C27, as line 404 has it: the new half-edge h' takes the main bit of h
\* and h keeps it, so both halves carry the main bit h had.
C27_MainBitInherited ==
    [][RefineReturns =>
        \A h \in Selected(last'.marked) :
            \E g \in {InsertedFor(last'.marked, h)} :
                /\ g \in Idx(Rows(halfedge'))
                /\ halfedge'.main[h] = halfedge.main[h]
                /\ halfedge'.main[g] = halfedge.main[h]]_vars

\* an edge-only call has split the four edges of the one-square mesh: the
\* rows 8..15 are the inserted half-edges
C27_Witness ==
    /\ status = "ok"
    /\ nops = 1
    /\ last = [op |-> "edges", marked |-> {0}]
    /\ Rows(halfedge) = 16
    /\ halfedge.main[0] = 1 /\ halfedge.main[8] = 1
    /\ halfedge.main[4] = 0 /\ halfedge.main[12] = 0

\* half-edges with the same head carry the same level
NodeLevelUniform ==
    status = "ok" =>
        \A h, g \in Idx(Rows(halfedge)) :
            halfedge.to[h] = halfedge.to[g] => hlevel[h] = hlevel[g]

\* the two new half-edges of a split edge, the one made for h and the one
\* made for opp[h], get the level max(level of the two ends) + 1, which is
\* above the level of h
SplitLevels ==
    \A h \in Selected(last'.marked) :
        \E g \in {InsertedFor(last'.marked, h)},
           k \in {InsertedFor(last'.marked, halfedge.opp[h])} :
            /\ g \in DOMAIN hlevel' /\ k \in DOMAIN hlevel'
            /\ hlevel'[g] = Max2(hlevel[h], hlevel[halfedge.opp[h]]) + 1
            /\ hlevel'[k] = hlevel'[g]
            /\ hlevel'[g] > hlevel[h]

\* C28: in every reachable state all half-edges that point to the same node
\* carry the same halfedge_level; and for an edge split by refine_poly the
\* new half-edges on both sides get the same level, max(level of the two
\* endpoints) + 1, strictly greater than the level of the split half-edge.
C28_NodeLevels == []NodeLevelUniform /\ [][RefineReturns => SplitLevels]_vars

\* C29: in every reachable state no main half-edge belongs to the sentinel
\* cell: main[h] = 1 implies cell[h] # NC.
C29_NoMainInSentinel ==
    status = "ok" =>
        \A h \in Idx(Rows(halfedge)) :
            halfedge.main[h] = 1 => halfedge.cell[h] # NC

\* a mesh in which refine_poly has split a boundary edge: a sentinel
\* half-edge and a main half-edge point to midpoint nodes
C29_Witness ==
    /\ status = "ok"
    /\ last.op \in {"refine", "edges"}
    /\ \E h \in Idx(Rows(halfedge)) :
          /\ halfedge.cell[h] = NC
          /\ node[halfedge.to[h]] = MidPoint
          /\ halfedge.main[h] = 0
    /\ \E h \in Idx(Rows(halfedge)) :
          /\ halfedge.main[h] = 1
          /\ node[halfedge.to[h]] = MidPoint

\* the half-edges whose links a refine_poly call with the cells S marked may
\* rewrite: the selected half-edges, their neighbours on the rim, and the rim
\* of the marked cells
MayRelink(S) ==
    LET MH == Selected(S)
    IN  MH \cup {halfedge.prev[h] : h \in MH} \cup {halfedge.next[h] : h \in MH}
           \cup {h \in Idx(Rows(halfedge)) : halfedge.cell[h] \in S}

\* what a refine_poly call keeps of the mesh it is given
OnlyAppends ==
    /\ NN' >= NN
    /\ \A n \in Idx(NN) : node'[n] = node[n]
    /\ Rows(halfedge') >= Rows(halfedge)
    /\ \A h \in Idx(Rows(halfedge)) :
          /\ halfedge'.to[h] = halfedge.to[h]
          /\ halfedge'.main[h] = halfedge.main[h]
          /\ hlevel'[h] = hlevel[h]
          /\ h \notin MayRelink(last'.marked) =>
                /\ halfedge'.next[h] = halfedge.next[h]
                /\ halfedge'.prev[h] = halfedge.prev[h]
                /\ halfedge'.opp[h] = halfedge.opp[h]

\* C30: refine_poly, in the full and in the edge-only mode, only appends:
\* the nodes that existed keep their index and coordinates, the half-edges
\* that existed keep their index, to, main and halfedge_level; of their other
\* fields next, prev and opp change only for the selected half-edges, their
\* rim neighbours and the rim half-edges of the marked cells.
C30_RefineOnlyAppends == [][RefineReturns => OnlyAppends]_vars

====
